---------------------------- MODULE Spec2Model ----------------------------
(* Model of certbot_azure/dns_azure.py: the _AzureClient record manager    *)
(* (add_txt_record, del_txt_record) and its zone discovery                 *)
(* (_find_managed_zone) against an Azure DNS account.                      *)
(*                                                                         *)
(* Names (fqdns, zone names, relative record names) are Python strings,    *)
(* modelled as sequences of one-character strings, so that split('.') and  *)
(* '.'.join are computed and not assumed.                                  *)
EXTENDS Naturals, Sequences, FiniteSets, TLC

VARIABLES
    zones,              \* the account's DNS zones, in listing order: <<[name, rg], ...>>
    records,            \* remote TXT record sets: <<rg, zone, rel>> -> [ttl, txt_records]
    last,               \* the last add_txt_record / del_txt_record call and how it ended
    pages,              \* the pages of one zones.list() result being iterated
    cursor,             \* position of the paged iterator: [page, item]
    azure_zones_list,   \* the list collected by the loop of _find_managed_zone
    pc,                 \* position inside _find_managed_zone
    domain,             \* argument of the _find_managed_zone call being stepped
    found               \* its result

vars == <<zones, records, last, pages, cursor, azure_zones_list, pc, domain, found>>

-----------------------------------------------------------------------------
(* Bounds *)

MaxLen == 4         \* longest fqdn, in characters
MaxZoneLen == 3     \* longest zone name, in characters
MaxZones == 2       \* zones in the account
MaxEntries == 3     \* TXT entries over all record sets
PageSize == 1       \* zones per page of the listing
MaxPages == 3       \* pages of a listing (stepped loop)

Alphabet == {"a", "."}
Values == {"v", "w"}

\* Authenticator.ttl, the record_ttl that _perform passes
Authenticator_ttl == 60

\* self.resource_group, and another resource group of the same subscription
resource_group == "rg"
ResourceGroups == {resource_group, "other"}

-----------------------------------------------------------------------------
(* Strings *)

RECURSIVE Strings(_)
Strings(n) ==
    IF n = 0 THEN {<<>>}
    ELSE LET S == Strings(n - 1)
         IN  S \cup {Append(s, c) : s \in {t \in S : Len(t) = n - 1}, c \in Alphabet}

\* str.split('.')
RECURSIVE split(_)
split(s) ==
    IF \A i \in 1..Len(s) : s[i] # "."
    THEN <<s>>
    ELSE LET i == CHOOSE j \in 1..Len(s) :
                      s[j] = "." /\ \A k \in 1..(j - 1) : s[k] # "."
         IN  <<SubSeq(s, 1, i - 1)>> \o split(SubSeq(s, i + 1, Len(s)))

\* '.'.join(parts)
RECURSIVE join(_)
join(parts) ==
    IF Len(parts) = 0 THEN <<>>
    ELSE IF Len(parts) = 1 THEN parts[1]
    ELSE parts[1] \o <<".">> \o join(Tail(parts))

\* a DNS name: no empty label
IsName(s) == \A i \in 1..Len(split(s)) : Len(split(s)[i]) > 0

\* validation names: '_acme-challenge.' + domain, so two labels or more
Fqdns == {s \in Strings(MaxLen) : IsName(s) /\ Len(split(s)) >= 2}
ZoneNames == {s \in Strings(MaxZoneLen) : IsName(s)}

-----------------------------------------------------------------------------
(* Exceptions: the class that leaves a call, or NoExc.                      *)
(* The handlers name msrestazure's CloudError (line 12); the DNS client     *)
(* raises azure.core exceptions (line 8): ResourceNotFoundError, as the     *)
(* handlers of lines 145 and 174 expect, and for any other failed request   *)
(* its base class HttpResponseError, which is no CloudError.                *)

NoExc == "none"
RemoteErrors == {"CloudError", "HttpResponseError"}

\* A remote call that fails during one operation (at most one: the first
\* failure ends the operation), or none.
NoFault == [at |-> "none", err |-> NoExc]
Apis == {"list", "get", "create_or_update", "delete"}
Faults == {NoFault} \cup [at : Apis, err : RemoteErrors]

NoZone == <<>>

-----------------------------------------------------------------------------
(* The paged zone listing *)

\* the listing of the subscription's zones, cut into pages
RECURSIVE Pages(_)
Pages(zs) ==
    IF Len(zs) = 0 THEN <<>>
    ELSE IF Len(zs) <= PageSize THEN <<zs>>
    ELSE <<SubSeq(zs, 1, PageSize)>> \o Pages(SubSeq(zs, PageSize + 1, Len(zs)))

FirstItem == [page |-> 1, item |-> 1]

\* a paging that never moves to the following page
ItemNextOnePage(pgs, cur) ==
    IF cur.page <= Len(pgs) /\ cur.item <= Len(pgs[cur.page])
    THEN [stop |-> FALSE, item |-> pgs[cur.page][cur.item],
          cursor |-> [page |-> cur.page, item |-> cur.item + 1]]
    ELSE [stop |-> TRUE, cursor |-> cur]

\* azure_zones.__next__ / azure_zones.next(): the next zone of the listing,
\* fetching the following pages as needed, or StopIteration
RECURSIVE ItemNext(_, _)
ItemNext(pgs, cur) ==
    IF cur.page > Len(pgs)
    THEN [stop |-> TRUE, cursor |-> cur]
    ELSE IF cur.item <= Len(pgs[cur.page])
    THEN [stop |-> FALSE, item |-> pgs[cur.page][cur.item],
          cursor |-> [page |-> cur.page, item |-> cur.item + 1]]
    ELSE ItemNext(pgs, [page |-> cur.page + 1, item |-> 1])

\* for zone in azure_zones: azure_zones_list.append(zone.name)
RECURSIVE ForLoop(_, _, _)
ForLoop(pgs, cur, acc) ==
    LET r == ItemNext(pgs, cur)
    IN  IF r.stop THEN [list |-> acc, cursor |-> r.cursor]
        ELSE ForLoop(pgs, r.cursor, Append(acc, r.item.name))

\* while True: <for loop>; azure_zones.next()   until StopIteration
RECURSIVE WhileLoop(_, _, _)
WhileLoop(pgs, cur, acc) ==
    LET f == ForLoop(pgs, cur, acc)
        n == ItemNext(pgs, f.cursor)
    IN  IF n.stop THEN f.list
        ELSE WhileLoop(pgs, n.cursor, f.list)

-----------------------------------------------------------------------------
(* Zone discovery *)

\* certbot.plugins.dns_common.base_domain_name_guesses
base_domain_name_guesses(d) ==
    LET fragments == split(d)
    IN  [i \in 1..Len(fragments) |-> join(SubSeq(fragments, i, Len(fragments)))]

InList(x, list) == \E i \in 1..Len(list) : list[i] = x

\* a discovery that returns the last candidate that is listed
GuessShortest(d, list) ==
    LET zone_dns_name_guesses == base_domain_name_guesses(d)
        hits == {i \in 1..Len(zone_dns_name_guesses) :
                    InList(zone_dns_name_guesses[i], list)}
    IN  IF hits = {} THEN NoZone
        ELSE zone_dns_name_guesses[CHOOSE i \in hits : \A j \in hits : j <= i]

\* for zone_name in zone_dns_name_guesses: if zone_name in azure_zones_list: return
Guess(d, list) ==
    LET zone_dns_name_guesses == base_domain_name_guesses(d)
        hits == {i \in 1..Len(zone_dns_name_guesses) :
                    InList(zone_dns_name_guesses[i], list)}
    IN  IF hits = {} THEN NoZone
        ELSE zone_dns_name_guesses[CHOOSE i \in hits : \A j \in hits : i <= j]

\* lines 216-225: the first candidate that is listed, or PluginError
Discovered(zone, list) ==
    [exc |-> IF zone = NoZone THEN "PluginError" ELSE NoExc,
     zone |-> zone, listed |-> list]

\* lines 204-215: the drained listing, or the exception that leaves the loop
ListZones(fault) ==
    IF fault.at = "list"
    THEN [exc |-> IF fault.err = "CloudError" THEN "PluginError" ELSE fault.err,
          list |-> <<>>]
    ELSE [exc |-> NoExc, list |-> WhileLoop(Pages(zones), FirstItem, <<>>)]

FindIn(d, l) ==
    IF l.exc # NoExc
    THEN [exc |-> l.exc, zone |-> NoZone, listed |-> <<>>]
    ELSE Discovered(Guess(d, l.list), l.list)

\* _find_managed_zone
find_managed_zone(d, fault) == FindIn(d, ListZones(fault))

-----------------------------------------------------------------------------
(* The remote record-set API, scoped by (resource group, zone, relative     *)
(* name, 'TXT').  Each returns the exception raised (or NoExc) and its      *)
(* result.                                                                  *)

EmptyRecords == [k \in {} |-> 0]

ZoneIn(rg, zone) == \E i \in 1..Len(zones) : zones[i] = [name |-> zone, rg |-> rg]

Call(api, zone, rel) == [api |-> api, rg |-> resource_group, zone |-> zone, rel |-> rel]

\* self.dns_client.record_sets.get(self.resource_group, zone, name, 'TXT')
record_sets_get(recs, zone, rel, fault) ==
    LET key == <<resource_group, zone, rel>>
    IN  IF fault.at = "get" THEN [exc |-> fault.err]
        ELSE IF key \in DOMAIN recs THEN [exc |-> NoExc, record |-> recs[key]]
        ELSE [exc |-> "ResourceNotFoundError"]

\* self.dns_client.record_sets.create_or_update(self.resource_group, zone, name, 'TXT', record)
record_sets_create_or_update(recs, zone, rel, record, fault) ==
    LET key == <<resource_group, zone, rel>>
    IN  IF fault.at = "create_or_update" THEN [exc |-> fault.err, records |-> recs]
        ELSE IF ~ZoneIn(resource_group, zone)
        THEN [exc |-> "ResourceNotFoundError", records |-> recs]
        ELSE [exc |-> NoExc,
              records |-> [k \in DOMAIN recs \cup {key} |->
                              IF k = key THEN record ELSE recs[k]]]

\* self.dns_client.record_sets.delete(self.resource_group, zone, name, 'TXT')
record_sets_delete(recs, zone, rel, fault) ==
    LET key == <<resource_group, zone, rel>>
    IN  IF fault.at = "delete" THEN [exc |-> fault.err, records |-> recs]
        ELSE [exc |-> NoExc, records |-> [k \in DOMAIN recs \ {key} |-> recs[k]]]

-----------------------------------------------------------------------------
(* The record manager *)

\* seq[0:-n]
SliceHead(seq, n) == SubSeq(seq, 1, IF Len(seq) >= n THEN Len(seq) - n ELSE 0)

\* a relative name that keeps the zone's first label
relative_record_name_off_by_one(d, zone) ==
    join(SliceHead(split(d), Len(split(zone)) - 1))

\* line 140: ".".join(domain.split('.')[0:-len(zone.split('.'))])
add_relative_record_name(d, zone) == join(SliceHead(split(d), Len(split(zone))))

\* line 169: ".".join(domain.split('.')[0:-len(zone.split('.'))])
del_relative_record_name(d, zone) == join(SliceHead(split(d), Len(split(zone))))

\* TxtRecord(value=[record_content])
TxtRecord(record_content) == <<record_content>>

\* a handler that logs and swallows, as the one of del_txt_record does
AddExceptSwallow(exc) == IF exc \in {"CloudError", "PluginError"} THEN NoExc ELSE exc

\* except CloudError as e: raise errors.PluginError(...)        (lines 155-157)
AddExcept(exc) == IF exc = "CloudError" THEN "PluginError" ELSE exc

\* a handler that names CloudError alone, as the one of add_txt_record does
DelExceptCloudOnly(exc) == IF exc = "CloudError" THEN NoExc ELSE exc

\* except (CloudError, errors.PluginError) as e: logger.warning(...)  (lines 192-193)
DelExcept(exc) == IF exc \in {"CloudError", "PluginError"} THEN NoExc ELSE exc

Result(exc, recs, calls, z, rel, raised) ==
    [outcome |-> IF exc = NoExc THEN "returned" ELSE exc,
     records |-> recs, calls |-> calls, zone |-> z.zone, rel |-> rel,
     listed |-> z.listed, listing |-> z.exc, raised |-> raised]

ListRaised(fault) == IF fault.at = "list" THEN fault ELSE NoFault
Raised(fault, api) == IF fault.at = api THEN fault ELSE NoFault

\* an add that replaces the values of an existing record set
AppendReplacing(txt_records, record_content) == <<TxtRecord(record_content)>>

\* record.txt_records.append(TxtRecord(value=[record_content]))
AppendTxt(txt_records, record_content) == Append(txt_records, TxtRecord(record_content))

\* lines 148-154: create_or_update, and how add_txt_record ends
AddUpsert(z, relative_record_name, record, fault, c) ==
    Result(AddExcept(c.exc), c.records,
           <<Call("get", z.zone, relative_record_name),
             Call("create_or_update", z.zone, relative_record_name)>>,
           z, relative_record_name, Raised(fault, "create_or_update"))

\* lines 143-146: the record set to write, from what get answered
AddRecordSet(g, record_content, record_ttl) ==
    IF g.exc = NoExc
    THEN [ttl |-> g.record.ttl,
          txt_records |-> AppendTxt(g.record.txt_records, record_content)]
    ELSE [ttl |-> record_ttl, txt_records |-> <<TxtRecord(record_content)>>]

\* lines 142-154, after get
AddAfterGet(z, relative_record_name, record_content, record_ttl, fault, g) ==
    IF g.exc \notin {NoExc, "ResourceNotFoundError"}
    THEN Result(AddExcept(g.exc), records,
                <<Call("get", z.zone, relative_record_name)>>, z,
                relative_record_name, Raised(fault, "get"))
    ELSE AddUpsert(z, relative_record_name,
                   AddRecordSet(g, record_content, record_ttl), fault,
                   record_sets_create_or_update(records, z.zone, relative_record_name,
                       AddRecordSet(g, record_content, record_ttl), fault))

\* lines 140-154, after _find_managed_zone returned a zone
AddInZone(z, relative_record_name, record_content, record_ttl, fault) ==
    AddAfterGet(z, relative_record_name, record_content, record_ttl, fault,
                record_sets_get(records, z.zone, relative_record_name, fault))

\* lines 139-157, after _find_managed_zone
AddAfterFind(d, record_content, record_ttl, fault, z) ==
    IF z.exc # NoExc
    THEN Result(AddExcept(z.exc), records, <<>>, z, <<>>, ListRaised(fault))
    ELSE AddInZone(z, add_relative_record_name(d, z.zone), record_content,
                   record_ttl, fault)

\* _AzureClient.add_txt_record
add_txt_record(d, record_content, record_ttl, fault) ==
    AddAfterFind(d, record_content, record_ttl, fault, find_managed_zone(d, fault))

\* a filter that drops only the first entry equal to the value
FilterFirst(txt_records, record_content) ==
    LET hits == {i \in 1..Len(txt_records) : txt_records[i] = <<record_content>>}
    IN  IF hits = {} THEN txt_records
        ELSE LET i == CHOOSE h \in hits : \A j \in hits : h <= j
             IN  SubSeq(txt_records, 1, i - 1) \o SubSeq(txt_records, i + 1, Len(txt_records))

\* [tr for tr in record.txt_records if tr.value != [record_content]]
Filter(txt_records, record_content) ==
    SelectSeq(txt_records, LAMBDA tr : tr # <<record_content>>)

\* lines 177-191: delete or create_or_update, and how del_txt_record ends
DelWrite(z, relative_record_name, api, fault, w) ==
    Result(DelExcept(w.exc), w.records,
           <<Call("get", z.zone, relative_record_name),
             Call(api, z.zone, relative_record_name)>>,
           z, relative_record_name, Raised(fault, api))

\* lines 177-191, with the filtered record set
DelFiltered(z, relative_record_name, record, fault) ==
    IF Len(record.txt_records) = 0
    THEN DelWrite(z, relative_record_name, "delete", fault,
                  record_sets_delete(records, z.zone, relative_record_name, fault))
    ELSE DelWrite(z, relative_record_name, "create_or_update", fault,
                  record_sets_create_or_update(records, z.zone, relative_record_name,
                                               record, fault))

\* lines 171-191, after get
DelAfterGet(z, relative_record_name, record_content, fault, g) ==
    IF g.exc = "ResourceNotFoundError"
    THEN Result(NoExc, records, <<Call("get", z.zone, relative_record_name)>>, z,
                relative_record_name, NoFault)
    ELSE IF g.exc # NoExc
    THEN Result(DelExcept(g.exc), records,
                <<Call("get", z.zone, relative_record_name)>>, z,
                relative_record_name, Raised(fault, "get"))
    ELSE DelFiltered(z, relative_record_name,
                     [ttl |-> g.record.ttl,
                      txt_records |-> Filter(g.record.txt_records, record_content)],
                     fault)

\* lines 169-191, after _find_managed_zone returned a zone
DelInZone(z, relative_record_name, record_content, fault) ==
    DelAfterGet(z, relative_record_name, record_content, fault,
                record_sets_get(records, z.zone, relative_record_name, fault))

\* lines 168-193, after _find_managed_zone
DelAfterFind(d, record_content, fault, z) ==
    IF z.exc # NoExc
    THEN Result(DelExcept(z.exc), records, <<>>, z, <<>>, ListRaised(fault))
    ELSE DelInZone(z, del_relative_record_name(d, z.zone), record_content, fault)

\* _AzureClient.del_txt_record
del_txt_record(d, record_content, fault) ==
    DelAfterFind(d, record_content, fault, find_managed_zone(d, fault))

-----------------------------------------------------------------------------
(* The account the plugin runs against *)

ZoneObjects == [name : ZoneNames, rg : ResourceGroups]

RECURSIVE SeqsUpTo(_, _)
SeqsUpTo(S, n) ==
    IF n = 0 THEN {<<>>}
    ELSE LET T == SeqsUpTo(S, n - 1)
         IN  T \cup {Append(t, x) : t \in {u \in T : Len(u) = n - 1}, x \in S}

RECURSIVE SetToSeq(_)
SetToSeq(S) ==
    IF S = {} THEN <<>>
    ELSE LET x == CHOOSE y \in S : TRUE
         IN  <<x>> \o SetToSeq(S \ {x})

\* the zones of the subscription, in the order the service lists them
Accounts == {SetToSeq(S) : S \in {T \in SUBSET ZoneObjects : Cardinality(T) <= MaxZones}}

\* a TXT record set made by someone else: another ttl, an entry of two strings
ForeignRecord ==
    [ttl |-> Authenticator_ttl + Authenticator_ttl + Authenticator_ttl,
     txt_records |-> <<<<"v", "w">>>>]

\* the record sets present before the plugin runs: none, or a foreign one
\* under the first zone of the configured resource group
InitialRecords(zs) ==
    {EmptyRecords} \cup
    {[k \in {<<resource_group, zs[i].name, <<"a">>>>} |-> ForeignRecord] :
        i \in {j \in 1..Len(zs) : j = 1 /\ zs[j].rg = resource_group}}

RECURSIVE SumLen(_, _)
SumLen(recs, keys) ==
    IF keys = {} THEN 0
    ELSE LET k == CHOOSE x \in keys : TRUE
         IN  Len(recs[k].txt_records) + SumLen(recs, keys \ {k})

TotalEntries(recs) == SumLen(recs, DOMAIN recs)

NoOp ==
    [op |-> "none", fqdn |-> <<>>, value |-> "", ttl |-> 0,
     outcome |-> "returned", zone |-> NoZone, rel |-> <<>>, listed |-> <<>>,
     listing |-> NoExc, calls |-> <<>>, raised |-> NoFault, before |-> EmptyRecords]

Op(name, d, v, t, r) ==
    [op |-> name, fqdn |-> d, value |-> v, ttl |-> t,
     outcome |-> r.outcome, zone |-> r.zone, rel |-> r.rel, listed |-> r.listed,
     listing |-> r.listing, calls |-> r.calls, raised |-> r.raised,
     before |-> records]

Init ==
    /\ zones \in Accounts
    /\ records \in InitialRecords(zones)
    /\ last = NoOp
    /\ pages = <<>>
    /\ cursor = FirstItem
    /\ azure_zones_list = <<>>
    /\ pc = "idle"
    /\ domain = <<>>
    /\ found = NoZone

\* Authenticator._perform -> _AzureClient.add_txt_record
AddRecord ==
    /\ pc = "idle"
    /\ TotalEntries(records) < MaxEntries
    /\ \E d \in Fqdns, v \in Values, f \in {x \in Faults : x.at # "delete"} :
          LET r == add_txt_record(d, v, Authenticator_ttl, f)
          IN  /\ records' = r.records
              /\ last' = Op("add", d, v, Authenticator_ttl, r)
    /\ UNCHANGED <<zones, pages, cursor, azure_zones_list, pc, domain, found>>

\* Authenticator._cleanup -> _AzureClient.del_txt_record
DelRecord ==
    /\ pc = "idle"
    /\ \E d \in Fqdns, v \in Values, f \in Faults :
          LET r == del_txt_record(d, v, f)
          IN  /\ records' = r.records
              /\ last' = Op("del", d, v, 0, r)
    /\ UNCHANGED <<zones, pages, cursor, azure_zones_list, pc, domain, found>>

Next == AddRecord \/ DelRecord

Spec == Init /\ [][Next]_vars

-----------------------------------------------------------------------------
(* The collection loop of _find_managed_zone, one iteration at a time *)

ListedNames == {<<"a">>, <<"a", ".", "a">>}
ListedZones == [name : ListedNames, rg : {resource_group}]
Listings == SeqsUpTo(SeqsUpTo(ListedZones, PageSize), MaxPages)

ListInit ==
    /\ zones = <<>>
    /\ records = EmptyRecords
    /\ last = NoOp
    /\ pages \in Listings
    /\ cursor = FirstItem
    /\ azure_zones_list = <<>>
    /\ pc = "for"
    /\ domain \in ListedNames
    /\ found = NoZone

\* for zone in azure_zones: azure_zones_list.append(zone.name)   (lines 208-209)
ForStep ==
    /\ pc = "for"
    /\ LET r == ItemNext(pages, cursor)
       IN  /\ cursor' = r.cursor
           /\ IF r.stop
              THEN pc' = "next" /\ UNCHANGED azure_zones_list
              ELSE /\ azure_zones_list' = Append(azure_zones_list, r.item.name)
                   /\ pc' = "for"
    /\ UNCHANGED <<zones, records, last, pages, domain, found>>

\* azure_zones.next() ... except StopIteration: pass              (lines 210-212)
NextCall ==
    /\ pc = "next"
    /\ LET n == ItemNext(pages, cursor)
       IN  /\ cursor' = n.cursor
           /\ pc' = IF n.stop THEN "guess" ELSE "for"
    /\ UNCHANGED <<zones, records, last, pages, azure_zones_list, domain, found>>

\* lines 216-225
Discover ==
    /\ pc = "guess"
    /\ found' = Guess(domain, azure_zones_list)
    /\ pc' = "done"
    /\ UNCHANGED <<zones, records, last, pages, cursor, azure_zones_list, domain>>

ListNext == ForStep \/ NextCall \/ Discover

ListSpec == ListInit /\ [][ListNext]_vars /\ WF_vars(ListNext)

-----------------------------------------------------------------------------
(* Vocabulary of the properties, stated on the strings themselves *)

\* z is d, or what follows one of d's dots
IsLabelSuffix(z, d) ==
    \/ z = d
    \/ /\ Len(z) + 1 < Len(d)
       /\ d[Len(d) - Len(z)] = "."
       /\ SubSeq(d, Len(d) - Len(z) + 1, Len(d)) = z

\* the names of the subscription's zones
ListedNow == {zones[i].name : i \in 1..Len(zones)}

\* the listed zones that are label-boundary suffixes of d
Owners(d) == {z \in ListedNow : IsLabelSuffix(z, d)}

LastKey == <<resource_group, last.zone, last.rel>>

Issued(api) == \E i \in 1..Len(last.calls) : last.calls[i].api = api

\* the operation met no failed remote call and discovery ran on a full listing
Undisturbed == last.raised = NoFault

RECURSIVE Without(_, _)
Without(seq, x) ==
    IF Len(seq) = 0 THEN <<>>
    ELSE IF Head(seq) = x THEN Without(Tail(seq), x)
    ELSE <<Head(seq)>> \o Without(Tail(seq), x)

RECURSIVE Flatten(_)
Flatten(pgs) ==
    IF Len(pgs) = 0 THEN <<>>
    ELSE [i \in 1..Len(pgs[1]) |-> pgs[1][i].name] \o Flatten(Tail(pgs))

-----------------------------------------------------------------------------
(* C1: del_txt_record never raises to its caller, whatever fails during the *)
(* call: every removal ends by returning normally.                          *)
C1_RemoveNeverRaises ==
    last.op = "del" => last.outcome = "returned"

(* C2: an add for an fqdn none of whose candidate suffixes is a listed zone *)
(* ends in PluginError, issues no record-set call and leaves every record   *)
(* set as it was.                                                           *)
C2_AddWithoutZoneRaisesPluginError ==
    (last.op = "add" /\ last.raised.at # "list" /\ Owners(last.fqdn) = {})
        => /\ last.outcome = "PluginError"
           /\ last.calls = <<>>
           /\ records = last.before

C2_Witness ==
    /\ last.op = "add"
    /\ last.raised.at # "list"
    /\ Owners(last.fqdn) = {}
    /\ ListedNow # {}
    /\ DOMAIN last.before # {}

(* C3: zone discovery returns the longest label-boundary suffix of the fqdn *)
(* that equals a listed zone name, never a shorter one, and no zone exactly *)
(* when there is none.                                                      *)
C3_LongestListedSuffix ==
    (last.op # "none" /\ last.raised.at # "list")
        => IF Owners(last.fqdn) = {}
           THEN last.zone = NoZone
           ELSE /\ last.zone \in Owners(last.fqdn)
                /\ \A z \in Owners(last.fqdn) : Len(z) <= Len(last.zone)

C3_Witness ==
    /\ last.op # "none"
    /\ last.zone \in Owners(last.fqdn)
    /\ \E z \in Owners(last.fqdn) : Len(z) < Len(last.zone)

(* C4: a successful add leaves the record set at (zone, relative name)      *)
(* holding the entries it held before followed by the new value, also when  *)
(* an equal value is already there; a record set that did not exist is      *)
(* created with the given ttl and that single value.                        *)
C4_AddAppends ==
    (last.op = "add" /\ last.outcome = "returned")
        => /\ LastKey \in DOMAIN records
           /\ IF LastKey \in DOMAIN last.before
              THEN records[LastKey].txt_records =
                       Append(last.before[LastKey].txt_records, <<last.value>>)
              ELSE records[LastKey] =
                       [ttl |-> last.ttl, txt_records |-> <<<<last.value>>>>]

C4_Witness ==
    /\ last.op = "add"
    /\ last.outcome = "returned"
    /\ LastKey \in DOMAIN last.before
    /\ InList(<<last.value>>, last.before[LastKey].txt_records)
    /\ Len(records[LastKey].txt_records) = MaxEntries

(* C5: a removal that meets no remote failure, on an existing record set,   *)
(* leaves exactly the entries that are not equal to the value, in their     *)
(* order, and none that is; with no entry left the record set is deleted,   *)
(* otherwise it is upserted with the remaining entries.                     *)
C5_RemoveFilters ==
    (/\ last.op = "del"
     /\ Undisturbed
     /\ last.zone # NoZone
     /\ LastKey \in DOMAIN last.before)
        => /\ last.outcome = "returned"
           /\ IF Without(last.before[LastKey].txt_records, <<last.value>>) = <<>>
              THEN /\ LastKey \notin DOMAIN records
                   /\ Issued("delete")
                   /\ ~Issued("create_or_update")
              ELSE /\ LastKey \in DOMAIN records
                   /\ records[LastKey].txt_records =
                          Without(last.before[LastKey].txt_records, <<last.value>>)
                   /\ Issued("create_or_update")
                   /\ ~Issued("delete")

C5_Witness ==
    /\ last.op = "del"
    /\ Undisturbed
    /\ last.zone # NoZone
    /\ LastKey \in DOMAIN last.before
    /\ LastKey \in DOMAIN records
    /\ Len(last.before[LastKey].txt_records) = MaxEntries
    /\ Len(records[LastKey].txt_records) = 1

(* C6: a removal is a no-op in both clean cases: when discovery finds no    *)
(* zone, and when the zone is found but holds no record set at the relative *)
(* name, it issues no create-or-update and no delete, changes no record set *)
(* and returns normally.                                                    *)
C6_RemoveCleanIsNoop ==
    (/\ last.op = "del"
     /\ Undisturbed
     /\ (last.zone = NoZone \/ LastKey \notin DOMAIN last.before))
        => /\ last.outcome = "returned"
           /\ records = last.before
           /\ ~Issued("create_or_update")
           /\ ~Issued("delete")

C6_Witness ==
    /\ last.op = "del"
    /\ Undisturbed
    /\ last.zone # NoZone
    /\ ZoneIn(resource_group, last.zone)
    /\ LastKey \notin DOMAIN last.before
    /\ DOMAIN last.before # {}

(* C7: a remote failure during an add (listing, get other than not-found,   *)
(* create-or-update) reaches the caller as PluginError and as nothing else. *)
C7_AddWrapsRemoteFailures ==
    (last.op = "add" /\ last.raised # NoFault) => last.outcome = "PluginError"

(* C8, as claimed: the relative name followed by '.' and the zone is the    *)
(* fqdn, for every zone discovery returns.                                  *)
C8_RelativeDotZoneIsFqdn ==
    last.zone # NoZone => last.rel \o <<".">> \o last.zone = last.fqdn

(* C8, amended: the relative name is the fqdn without its trailing zone     *)
(* suffix: followed by '.' and the zone it is the fqdn when the zone is a   *)
(* proper suffix, and it is the empty string when the zone is the fqdn      *)
(* itself; add and remove compute the same name.                            *)
C8_RelativeName ==
    last.zone # NoZone
        => /\ IF last.zone = last.fqdn
              THEN last.rel = <<>>
              ELSE last.rel \o <<".">> \o last.zone = last.fqdn
           /\ last.rel = add_relative_record_name(last.fqdn, last.zone)
           /\ last.rel = del_relative_record_name(last.fqdn, last.zone)

C8_Witness ==
    /\ last.op = "del"
    /\ last.zone # NoZone
    /\ last.zone # last.fqdn
    /\ Len(last.rel) > 1

(* C9: the collection loop terminates for every finite paged listing, and   *)
(* once it has, the collected list holds the name of every zone of every    *)
(* page, in order, before any candidate is compared against it.             *)
C9_ListingDrained ==
    /\ [](pc \in {"guess", "done"}
            => /\ azure_zones_list = Flatten(pages)
               /\ azure_zones_list = WhileLoop(pages, FirstItem, <<>>))
    /\ <>(pc = "done")

C9_Witness ==
    /\ pc = "done"
    /\ Len(pages) = MaxPages
    /\ Len(pages[1]) = 0
    /\ Len(pages[MaxPages]) > 0
    /\ found # NoZone

(* C10: the zone discovery returns is a zone of the configured resource     *)
(* group, the one in which the record-set calls are then issued.            *)
C10_ZoneInResourceGroup ==
    last.zone # NoZone => ZoneIn(resource_group, last.zone)

=============================================================================
